---- MODULE Spec2Model ----
(***************************************************************************)
(* W3C tracestate: the TraceState list of src/trace_state.ts, its two      *)
(* grammar regexes, and the operations on it (get, add, update, delete,    *)
(* parse from a header, format to a header).                               *)
(*                                                                         *)
(* A JavaScript string is modelled as a sequence of one-character strings, *)
(* so that "k=v" is <<"k", "=", "v">>.  A TraceState is a sequence of      *)
(* records [key |-> string, value |-> string].                             *)
(*                                                                         *)
(* A call either returns or throws: its outcome is [err |-> e, val |-> x], *)
(* with e = "none" when it returned x.  A possibly-undefined result        *)
(* (Array.prototype.find, kv?.value) is a sequence of at most one element: *)
(* <<>> is undefined.                                                      *)
(***************************************************************************)
EXTENDS Integers, Sequences, FiniteSets, TLC

VARIABLES state, call

vars == <<state, call>>

(***************************************************************************)
(* Bounds of the model.                                                    *)
(***************************************************************************)
\* how many comma-separated members a header carries at most
MaxMembers == 2

(***************************************************************************)
(* Characters.                                                             *)
(***************************************************************************)
\* the printable ASCII characters, \x20 .. \x7e, in code order ("GRAVE" stands
\* for the grave accent \x60, which a string of this notation cannot hold)
Ascii ==
    << " ", "!", "\"", "#", "$", "%", "&", "'", "(", ")", "*", "+", ",", "-", ".", "/",
       "0", "1", "2", "3", "4", "5", "6", "7", "8", "9", ":", ";", "<", "=", ">", "?",
       "@", "A", "B", "C", "D", "E", "F", "G", "H", "I", "J", "K", "L", "M", "N", "O",
       "P", "Q", "R", "S", "T", "U", "V", "W", "X", "Y", "Z", "[", "\\", "]", "^", "_",
       "GRAVE", "a", "b", "c", "d", "e", "f", "g", "h", "i", "j", "k", "l", "m", "n", "o",
       "p", "q", "r", "s", "t", "u", "v", "w", "x", "y", "z", "{", "|", "}", "~" >>

\* the code unit of a character (the horizontal tab is the one non-printable
\* character the model's strings carry)
CodeTable ==
    [c \in {Ascii[i] : i \in 1..Len(Ascii)} |->
        31 + (CHOOSE i \in 1..Len(Ascii) : Ascii[i] = c)]

CharCode(c) == IF c = "\t" THEN 9 ELSE CodeTable[c]

\* the string of n copies of c
Rep(c, n) == [i \in 1..n |-> c]

(***************************************************************************)
(* TRACE_KEY_REGEX and TRACE_VALUE_REGEX, as RegExp.prototype.test         *)
(***************************************************************************)
\* the {0,255} of the simple-key alternative
SimpleKeyRest == 255
\* the {0,240} of the tenant-id
TenantIdRest == 240
\* the {0,13} of the system-id
SystemIdRest == 13
\* the {0,255} of the value
ValueRest == 255

\* [a-z]
IsLcAlpha(c) == CharCode(c) >= 97 /\ CharCode(c) <= 122

\* [a-z0-9]
IsLcAlphaOrDigit(c) ==
    IsLcAlpha(c) \/ (CharCode(c) >= 48 /\ CharCode(c) <= 57)

\* [-a-z0-9_*/]
IsKeyChar(c) == IsLcAlphaOrDigit(c) \/ c \in {"-", "_", "*", "/"}

\* [\x21-\x2b\x2d-\x3c\x3e-\x7e]
IsNblkChr(c) ==
    LET x == CharCode(c)
    IN  \/ (x >= 33 /\ x <= 43)
        \/ (x >= 45 /\ x <= 60)
        \/ (x >= 62 /\ x <= 126)

\* [\x20\x21-\x2b\x2d-\x3c\x3e-\x7e]
IsChr(c) == CharCode(c) = 32 \/ IsNblkChr(c)

\* (?:[a-z][-a-z0-9_*/]{0,255})
MatchesSimpleKey(s) ==
    /\ Len(s) >= 1
    /\ Len(s) - 1 <= SimpleKeyRest
    /\ IsLcAlpha(s[1])
    /\ \A i \in 2..Len(s) : IsKeyChar(s[i])

\* [a-z0-9][-a-z0-9_*/]{0,240}
MatchesTenantId(s) ==
    /\ Len(s) >= 1
    /\ Len(s) - 1 <= TenantIdRest
    /\ IsLcAlphaOrDigit(s[1])
    /\ \A i \in 2..Len(s) : IsKeyChar(s[i])

\* [a-z][-a-z0-9_*/]{0,13}
MatchesSystemId(s) ==
    /\ Len(s) >= 1
    /\ Len(s) - 1 <= SystemIdRest
    /\ IsLcAlpha(s[1])
    /\ \A i \in 2..Len(s) : IsKeyChar(s[i])

\* (?:[a-z0-9][-a-z0-9_*/]{0,240}@[a-z][-a-z0-9_*/]{0,13})
MatchesMultiTenantKey(s) ==
    \E p \in 1..Len(s) :
        /\ s[p] = "@"
        /\ MatchesTenantId(SubSeq(s, 1, p - 1))
        /\ MatchesSystemId(SubSeq(s, p + 1, Len(s)))

\* TRACE_KEY_REGEX.test(key)
TRACE_KEY_REGEX(key) == MatchesSimpleKey(key) \/ MatchesMultiTenantKey(key)

\* The value regex with the last character taken from chr instead of
\* nblk-chr: a value may then end in a space.
ValueRegexAnyLastChr(value) ==
    /\ Len(value) >= 1
    /\ Len(value) - 1 <= ValueRest
    /\ \A i \in 1..Len(value) : IsChr(value[i])

\* TRACE_VALUE_REGEX.test(value)
TRACE_VALUE_REGEX(value) ==
    /\ Len(value) >= 1
    /\ Len(value) - 1 <= ValueRest
    /\ \A i \in 1..(Len(value) - 1) : IsChr(value[i])
    /\ IsNblkChr(value[Len(value)])

(***************************************************************************)
(* Outcomes of a call.                                                     *)
(***************************************************************************)
Return(x) == [err |-> "none", val |-> x]

Throw(e) == [err |-> e, val |-> <<>>]

(***************************************************************************)
(* The operations of src/trace_state.ts.                                   *)
(***************************************************************************)
getEmptyTraceState == <<>>

\* traceState.some((kv) => kv.key === key)
stateHasKey(traceState, key) ==
    \E i \in 1..Len(traceState) : traceState[i].key = key

\* state.filter((kv) => kv.key !== validKey)
FilterOutKey(s, key) ==
    LET keep(kv) == kv.key # key
    IN  SelectSeq(s, keep)

\* find taking the last match instead of the first
FindLastByKey(s, key) ==
    LET hits == {i \in 1..Len(s) : s[i].key = key}
    IN  IF hits = {} THEN <<>>
        ELSE <<s[CHOOSE i \in hits : \A j \in hits : j <= i]>>

\* state.find((k) => k.key === validKey): the first match, or undefined
FindByKey(s, key) ==
    LET hits == {i \in 1..Len(s) : s[i].key = key}
    IN  IF hits = {} THEN <<>>
        ELSE <<s[CHOOSE i \in hits : \A j \in hits : i <= j]>>

getTraceStateValue(s, key) ==
    IF ~TRACE_KEY_REGEX(key) THEN Throw("InvalidKey")
    ELSE LET kv == FindByKey(s, key)
         IN  Return(IF kv = <<>> THEN <<>> ELSE <<kv[1].value>>)

RECURSIVE addTraceStateValue(_, _, _)
RECURSIVE updateTraceStateValue(_, _, _)

\* add without the fallback to update: the entry is prepended even when the
\* key is there already
AddNoFallback(s, key, value) ==
    IF ~TRACE_KEY_REGEX(key) THEN Throw("InvalidKey")
    ELSE IF ~TRACE_VALUE_REGEX(value) THEN Throw("InvalidValue")
    ELSE Return(<<[key |-> key, value |-> value]>> \o s)

\* add putting the new entry at the end of the list
AddAppends(s, key, value) ==
    IF ~TRACE_KEY_REGEX(key) THEN Throw("InvalidKey")
    ELSE IF ~TRACE_VALUE_REGEX(value) THEN Throw("InvalidValue")
    ELSE IF stateHasKey(s, key) THEN updateTraceStateValue(s, key, value)
    ELSE Return(s \o <<[key |-> key, value |-> value]>>)

\* update without the filter: the old entry stays behind the new one
UpdateKeepsOld(s, key, value) ==
    IF ~TRACE_KEY_REGEX(key) THEN Throw("InvalidKey")
    ELSE IF ~TRACE_VALUE_REGEX(value) THEN Throw("InvalidValue")
    ELSE IF ~stateHasKey(s, key) THEN addTraceStateValue(s, key, value)
    ELSE Return(<<[key |-> key, value |-> value]>> \o s)

\* update replacing the value where the entry stands
UpdateInPlace(s, key, value) ==
    IF ~TRACE_KEY_REGEX(key) THEN Throw("InvalidKey")
    ELSE IF ~TRACE_VALUE_REGEX(value) THEN Throw("InvalidValue")
    ELSE IF ~stateHasKey(s, key) THEN addTraceStateValue(s, key, value)
    ELSE Return([i \in 1..Len(s) |->
                    IF s[i].key = key THEN [key |-> key, value |-> value]
                    ELSE s[i]])

\* update validating the value only on its fallback to add
UpdateSkipsValueCheck(s, key, value) ==
    IF ~TRACE_KEY_REGEX(key) THEN Throw("InvalidKey")
    ELSE IF ~stateHasKey(s, key) THEN addTraceStateValue(s, key, value)
    ELSE Return(<<[key |-> key, value |-> value]>> \o FilterOutKey(s, key))

\* delete removing the first match only
DeleteFirstMatch(s, key) ==
    IF ~TRACE_KEY_REGEX(key) THEN Throw("InvalidKey")
    ELSE IF ~stateHasKey(s, key) THEN Return(s)
    ELSE LET p == CHOOSE i \in 1..Len(s) :
                      /\ s[i].key = key
                      /\ \A j \in 1..(i - 1) : s[j].key # key
         IN  Return(SubSeq(s, 1, p - 1) \o SubSeq(s, p + 1, Len(s)))

addTraceStateValue(s, key, value) ==
    IF ~TRACE_KEY_REGEX(key) THEN Throw("InvalidKey")
    ELSE IF ~TRACE_VALUE_REGEX(value) THEN Throw("InvalidValue")
    ELSE IF stateHasKey(s, key) THEN updateTraceStateValue(s, key, value)
    ELSE Return(<<[key |-> key, value |-> value]>> \o s)

updateTraceStateValue(s, key, value) ==
    IF ~TRACE_KEY_REGEX(key) THEN Throw("InvalidKey")
    ELSE IF ~TRACE_VALUE_REGEX(value) THEN Throw("InvalidValue")
    ELSE IF ~stateHasKey(s, key) THEN addTraceStateValue(s, key, value)
    ELSE Return(<<[key |-> key, value |-> value]>> \o FilterOutKey(s, key))

deleteTraceStateValue(s, key) ==
    IF ~TRACE_KEY_REGEX(key) THEN Throw("InvalidKey")
    ELSE Return(FilterOutKey(s, key))

(***************************************************************************)
(* String.prototype.split, trim and Array.prototype.join.                  *)
(***************************************************************************)
\* does the string hold the character: /=/.test(kv)
Contains(s, c) == \E i \in 1..Len(s) : s[i] = c

\* s.split(sep) for a one-character separator: every piece between
\* separators, the empty pieces too; "".split(",") is [""]
RECURSIVE Split(_, _)
Split(s, sep) ==
    IF ~Contains(s, sep) THEN <<s>>
    ELSE LET p == CHOOSE i \in 1..Len(s) :
                      /\ s[i] = sep
                      /\ \A j \in 1..(i - 1) : s[j] # sep
         IN  <<SubSeq(s, 1, p - 1)>> \o Split(SubSeq(s, p + 1, Len(s)), sep)

\* the white space trim() strips, among the characters of the model
IsWhiteSpace(c) == c \in {" ", "\t"}

\* s.trim()
Trim(s) ==
    LET ink == {i \in 1..Len(s) : ~IsWhiteSpace(s[i])}
    IN  IF ink = {} THEN <<>>
        ELSE LET lo == CHOOSE i \in ink : \A j \in ink : i <= j
                 hi == CHOOSE i \in ink : \A j \in ink : j <= i
             IN  SubSeq(s, lo, hi)

\* pieces.join(sep)
RECURSIVE Join(_, _)
Join(pieces, sep) ==
    IF pieces = <<>> THEN <<>>
    ELSE IF Len(pieces) = 1 THEN pieces[1]
    ELSE pieces[1] \o <<sep>> \o Join(Tail(pieces), sep)

\* the map without the filter before it
KeepAllMembers(members) == members

\* .filter((kv) => /=/.test(kv))
FilterHasEquals(members) ==
    LET keep(kv) == Contains(kv, "=")
    IN  SelectSeq(members, keep)

\* const [key, value] = kv.split("="): the first two pieces, value undefined
\* (here <<>>) when there is one piece only
Destructure(kv) ==
    LET parts == Split(kv, "=")
    IN  [key |-> <<parts[1]>>,
         value |-> IF Len(parts) >= 2 THEN <<parts[2]>> ELSE <<>>]

\* header.split(",").filter(...).map(...); undefined.trim() is a TypeError
getTraceStateFromHeader(header) ==
    LET kept == FilterHasEquals(Split(header, ","))
    IN  IF \E i \in 1..Len(kept) : Destructure(kept[i]).value = <<>>
        THEN Throw("TypeError")
        ELSE Return([i \in 1..Len(kept) |->
                        [key |-> Trim(Destructure(kept[i]).key[1]),
                         value |-> Trim(Destructure(kept[i]).value[1])]])

\* the header with a space after each comma
FormatCommaSpace(s) ==
    Join([i \in 1..Len(s) |->
             (IF i = 1 THEN <<>> ELSE <<" ">>)
                 \o s[i].key \o <<"=">> \o s[i].value], ",")

\* state.map((kv) => `${kv.key}=${kv.value}`).join(",")
getHeaderFromTraceState(s) ==
    Join([i \in 1..Len(s) |-> s[i].key \o <<"=">> \o s[i].value], ",")

(***************************************************************************)
(* The callers' inputs.                                                    *)
(***************************************************************************)
\* keys the key grammar accepts: "k", "k2", "t@v"
ValidKeys == { <<"k">>, <<"k", "2">>, <<"t", "@", "v">> }

\* a simple key of the greatest length the grammar accepts
LongestKey == Rep("a", 256)

\* keys it rejects: "k$", and a simple key one character too long
InvalidKeys == { <<"k", "$">>, Rep("a", 257) }

\* the keys add and update are called with
KeyInputs == ValidKeys \cup InvalidKeys

\* the keys get and delete are called with
LookupKeys == KeyInputs \cup {LongestKey}

\* values the value grammar accepts: "v", " x y"
ValidValues == { <<"v">>, <<" ", "x", " ", "y">> }

\* values it rejects: "b,v", "", "v ", "a=b", a value one character too long
InvalidValues ==
    { <<"b", ",", "v">>, <<>>, <<"v", " ">>, <<"a", "=", "b">>, Rep("v", 257) }

ValueInputs == ValidValues \cup InvalidValues

\* header members: "k=a=b", " k =\tv ", "junk", "", "  "
MemberPool ==
    { <<"k", "=", "a", "=", "b">>,
      <<" ", "k", " ", "=", "\t", "v", " ">>,
      <<"j", "u", "n", "k">>,
      <<>>,
      <<" ", " ">> }

\* the member lists of the headers: 1 to MaxMembers members
MemberSeqs == UNION {[1..n -> MemberPool] : n \in 1..MaxMembers}

(***************************************************************************)
(* The state machine: a caller holds a TraceState in `state` and replaces  *)
(* it by what each call returns; a call that throws leaves it as it was.   *)
(* `call` records the last call: its operation, arguments, the TraceState  *)
(* it was given and its outcome.                                           *)
(***************************************************************************)
NoCall ==
    [op |-> "none", key |-> <<>>, value |-> <<>>, header |-> <<>>,
     members |-> <<>>, pre |-> <<>>, res |-> Return(<<>>)]

Init ==
    /\ state = getEmptyTraceState
    /\ call = NoCall

\* what the caller holds after a call with outcome r
Held(r) == IF r.err = "none" THEN r.val ELSE state

GetValue ==
    \E k \in LookupKeys :
        /\ call' = [NoCall EXCEPT !.op = "get", !.key = k, !.pre = state,
                                  !.res = getTraceStateValue(state, k)]
        /\ UNCHANGED state

Add ==
    \E k \in KeyInputs, v \in ValueInputs :
        LET r == addTraceStateValue(state, k, v)
        IN  /\ call' = [NoCall EXCEPT !.op = "add", !.key = k, !.value = v,
                                      !.pre = state, !.res = r]
            /\ state' = Held(r)

Update ==
    \E k \in KeyInputs, v \in ValueInputs :
        LET r == updateTraceStateValue(state, k, v)
        IN  /\ call' = [NoCall EXCEPT !.op = "update", !.key = k, !.value = v,
                                      !.pre = state, !.res = r]
            /\ state' = Held(r)

Delete ==
    \E k \in LookupKeys :
        LET r == deleteTraceStateValue(state, k)
        IN  /\ call' = [NoCall EXCEPT !.op = "delete", !.key = k,
                                      !.pre = state, !.res = r]
            /\ state' = Held(r)

\* The caller derives its TraceState from a header.  The call takes no
\* TraceState, so what it yields is the same wherever it is made: the caller
\* makes it first.
ParseHeader ==
    \E ms \in MemberSeqs :
        LET h == Join(ms, ",")
            r == getTraceStateFromHeader(h)
        IN  /\ call.op = "none"
            /\ call' = [NoCall EXCEPT !.op = "parse", !.header = h,
                                      !.members = ms, !.res = r]
            /\ state' = Held(r)

\* The caller renders the TraceState it holds as a header.
FormatHeader ==
    LET h == getHeaderFromTraceState(state)
    IN  /\ call' = [NoCall EXCEPT !.op = "format", !.header = h,
                                  !.pre = state, !.res = Return(h)]
        /\ UNCHANGED state

\* The caller parses the header it has just rendered, to compare what it
\* gets with the TraceState it holds (`pre` stays the TraceState rendered).
ReparseHeader ==
    /\ call.op = "format"
    /\ call' = [NoCall EXCEPT !.op = "reparse", !.header = call.header,
                              !.pre = call.pre,
                              !.res = getTraceStateFromHeader(call.header)]
    /\ UNCHANGED state

\* TraceStates built from the empty one by add, update and delete
Next ==
    GetValue \/ Add \/ Update \/ Delete \/ FormatHeader \/ ReparseHeader

Spec == Init /\ [][Next]_vars

\* TraceStates that may also come from a header
NextHeader ==
    \/ GetValue \/ Add \/ Update \/ Delete
    \/ ParseHeader \/ FormatHeader \/ ReparseHeader

SpecHeader == Init /\ [][NextHeader]_vars

(***************************************************************************)
(* The grammars and list notions the properties are stated in, written     *)
(* from their prose and not from the regexes and array methods above.      *)
(***************************************************************************)
Lower ==
    {"a", "b", "c", "d", "e", "f", "g", "h", "i", "j", "k", "l", "m",
     "n", "o", "p", "q", "r", "s", "t", "u", "v", "w", "x", "y", "z"}

Digits == {"0", "1", "2", "3", "4", "5", "6", "7", "8", "9"}

KeyTailChars == Lower \cup Digits \cup {"_", "-", "*", "/"}

\* one lowercase letter, then 0-255 characters of [a-z0-9_*/-]
IsSimpleKey(k) ==
    /\ Len(k) \in 1..256
    /\ k[1] \in Lower
    /\ \A i \in 2..Len(k) : k[i] \in KeyTailChars

\* tenant-id (1-241 characters) "@" system-id (1-14 characters)
IsMultiTenantKey(k) ==
    \E t \in 1..(Len(k) - 2) :
        /\ t <= 241
        /\ Len(k) - (t + 1) <= 14
        /\ k[t + 1] = "@"
        /\ k[1] \in Lower \cup Digits
        /\ \A i \in 2..t : k[i] \in KeyTailChars
        /\ k[t + 2] \in Lower
        /\ \A i \in (t + 3)..Len(k) : k[i] \in KeyTailChars

KeyGrammar(k) == IsSimpleKey(k) \/ IsMultiTenantKey(k)

\* 1-256 printable ASCII characters, no comma, no '=', not ending in a space
ValueGrammar(v) ==
    /\ Len(v) \in 1..256
    /\ \A i \in 1..Len(v) :
          /\ v[i] \in {Ascii[j] : j \in 1..Len(Ascii)}
          /\ v[i] # ","
          /\ v[i] # "="
    /\ v[Len(v)] # " "

\* how many entries of s have key k
CountKey(s, k) == Cardinality({i \in 1..Len(s) : s[i].key = k})

\* the entries of s whose key is not k, in their order in s
RECURSIVE Without(_, _)
Without(s, k) ==
    IF s = <<>> THEN <<>>
    ELSE IF Head(s).key = k THEN Without(Tail(s), k)
    ELSE <<Head(s)>> \o Without(Tail(s), k)

\* the value of the first entry of s with key k, <<>> when there is none
RECURSIVE FirstValue(_, _)
FirstValue(s, k) ==
    IF s = <<>> THEN <<>>
    ELSE IF Head(s).key = k THEN <<Head(s).value>>
    ELSE FirstValue(Tail(s), k)

\* the text of m before its first '=' (all of m when it has none)
RECURSIVE BeforeFirstEq(_)
BeforeFirstEq(m) ==
    IF m = <<>> \/ Head(m) = "=" THEN <<>>
    ELSE <<Head(m)>> \o BeforeFirstEq(Tail(m))

\* the text of m after its first '=' (nothing when it has none)
RECURSIVE AfterFirstEq(_)
AfterFirstEq(m) ==
    IF m = <<>> THEN <<>>
    ELSE IF Head(m) = "=" THEN Tail(m)
    ELSE AfterFirstEq(Tail(m))

\* m without its leading and trailing spaces and tabs
RECURSIVE StripOWS(_)
StripOWS(m) ==
    IF m = <<>> THEN <<>>
    ELSE IF Head(m) \in {" ", "\t"} THEN StripOWS(Tail(m))
    ELSE IF m[Len(m)] \in {" ", "\t"} THEN StripOWS(SubSeq(m, 1, Len(m) - 1))
    ELSE m

\* the members of ms that hold a '=', in their order in ms
RECURSIVE Retained(_)
Retained(ms) ==
    IF ms = <<>> THEN <<>>
    ELSE IF \E i \in 1..Len(Head(ms)) : Head(ms)[i] = "="
         THEN <<Head(ms)>> \o Retained(Tail(ms))
    ELSE Retained(Tail(ms))

\* the last call was op, made with a key and a value the grammars accept
ValidCall(op) ==
    /\ call.op = op
    /\ KeyGrammar(call.key)
    /\ ValueGrammar(call.value)

\* the last call returned x
Returned(x) == call.res.err = "none" /\ call.res.val = x

NewEntry == [key |-> call.key, value |-> call.value]

(***************************************************************************)
(* The properties.                                                         *)
(***************************************************************************)

\* C1: a TraceState built from the empty one by add, update and delete calls
\* holds at most one entry per key.
NoDuplicateKeys ==
    \A i, j \in 1..Len(state) : state[i].key = state[j].key => i = j

\* C1: an add or update of a key that was there has acted on a list of three
NoDuplicateKeysWitness ==
    /\ call.op \in {"add", "update"}
    /\ call.res.err = "none"
    /\ CountKey(call.pre, call.key) = 1
    /\ Len(call.pre) = 3
    /\ Len(state) = 3

\* C2: update of a key the state holds returns the new entry followed by the
\* entries of other keys in their order; the key has one entry in the result.
UpdateMovesToFront ==
    (ValidCall("update") /\ CountKey(call.pre, call.key) >= 1)
        => /\ Returned(<<NewEntry>> \o Without(call.pre, call.key))
           /\ CountKey(call.res.val, call.key) = 1
           /\ state = call.res.val

\* C2: the updated key stood last, behind two other entries
UpdateMovesToFrontWitness ==
    /\ ValidCall("update")
    /\ Len(call.pre) = 3
    /\ call.pre[3].key = call.key
    /\ call.pre[3].value # call.value
    /\ state = <<NewEntry, call.pre[1], call.pre[2]>>

\* C3: add of a key the state does not hold returns the new entry followed by
\* the state's entries, each one place further.
AddPrepends ==
    (ValidCall("add") /\ CountKey(call.pre, call.key) = 0)
        => /\ call.res.err = "none"
           /\ Len(call.res.val) = Len(call.pre) + 1
           /\ call.res.val[1] = NewEntry
           /\ \A i \in 1..Len(call.pre) : call.res.val[i + 1] = call.pre[i]
           /\ state = call.res.val

\* C3: a third key was added in front of two entries
AddPrependsWitness ==
    /\ ValidCall("add")
    /\ CountKey(call.pre, call.key) = 0
    /\ Len(call.pre) = 2
    /\ Len(state) = 3
    /\ state[1] = NewEntry

\* C4: add and update return the same list for the same state, valid key and
\* valid value, also on a state where a key repeats.
AddEqualsUpdate ==
    /\ ValidCall("add")
          => call.res = updateTraceStateValue(call.pre, call.key, call.value)
    /\ ValidCall("update")
          => call.res = addTraceStateValue(call.pre, call.key, call.value)

\* C4: add was called with a key the state held twice
AddEqualsUpdateWitness ==
    /\ ValidCall("add")
    /\ CountKey(call.pre, call.key) = 2
    /\ call.res.err = "none"
    /\ CountKey(state, call.key) = 1

\* C5: delete returns the entries whose key is not the given one, in their
\* order; with the key absent it returns the state as it was and does not fail.
DeleteRemovesKey ==
    (call.op = "delete" /\ KeyGrammar(call.key))
        => /\ Returned(Without(call.pre, call.key))
           /\ CountKey(call.pre, call.key) = 0 => call.res.val = call.pre
           /\ state = call.res.val

\* C5: the middle one of three entries was deleted
DeleteRemovesKeyWitness ==
    /\ call.op = "delete"
    /\ Len(call.pre) = 3
    /\ call.pre[2].key = call.key
    /\ state = <<call.pre[1], call.pre[3]>>

\* C6: getValue returns the value of the first entry with the key, and
\* undefined, without failing, when there is none; after add the key's value
\* is the added one, after delete it is undefined.
GetReturnsFirstMatch ==
    /\ (call.op = "get" /\ KeyGrammar(call.key))
          => Returned(FirstValue(call.pre, call.key))
    /\ (call.op = "get" /\ KeyGrammar(call.key) /\ call.pre = <<>>)
          => Returned(<<>>)
    /\ (call.op = "add" /\ call.res.err = "none")
          => getTraceStateValue(state, call.key) = Return(<<call.value>>)
    /\ (call.op = "delete" /\ call.res.err = "none")
          => getTraceStateValue(state, call.key) = Return(<<>>)

\* C6: the key looked up had two entries of different values
GetReturnsFirstMatchWitness ==
    /\ call.op = "get"
    /\ Len(call.pre) >= 2
    /\ call.pre[1].key = call.key
    /\ call.pre[2].key = call.key
    /\ call.pre[1].value # call.pre[2].value
    /\ call.res = Return(<<call.pre[1].value>>)

\* C7: a call with a key the key grammar rejects fails with InvalidKey, and
\* an add or update with a valid key and a value the value grammar rejects
\* fails with InvalidValue; the state the call was given is what is held after.
InvalidInputsThrow ==
    /\ (call.op \in {"get", "add", "update", "delete"} /\ ~KeyGrammar(call.key))
          => (call.res.err = "InvalidKey" /\ state = call.pre)
    /\ (call.op \in {"add", "update"} /\ KeyGrammar(call.key)
                                       /\ ~ValueGrammar(call.value))
          => (call.res.err = "InvalidValue" /\ state = call.pre)

\* C7: an update of a key that was there was refused for its value, with a
\* comma in it
InvalidInputsThrowWitness ==
    /\ call.op = "update"
    /\ CountKey(call.pre, call.key) = 1
    /\ \E i \in 1..Len(call.value) : call.value[i] = ","
    /\ call.res.err = "InvalidValue"
    /\ Len(state) >= 2

\* C8: in a TraceState built from the empty one by add, update and delete
\* calls every key satisfies the key grammar and every value the value grammar.
EntriesWellFormed ==
    \A i \in 1..Len(state) :
        KeyGrammar(state[i].key) /\ ValueGrammar(state[i].value)

\* C8: three entries are held, one with a multi-tenant key, one with a value
\* that starts with a space, and a value ending in a space was just offered
EntriesWellFormedWitness ==
    /\ Len(state) = 3
    /\ \E i \in 1..3 : IsMultiTenantKey(state[i].key)
    /\ \E i \in 1..3 : state[i].value[1] = " "
    /\ call.op \in {"add", "update"}
    /\ KeyGrammar(call.key)
    /\ call.value = <<"v", " ">>

\* C9: parseHeader splits a retained member on its first '=': the key is the
\* trimmed text before it, the value the trimmed text of all that follows it.
ParseSplitsOnFirstEquals ==
    call.op = "parse"
        => /\ call.res.err = "none"
           /\ Len(call.res.val) = Len(Retained(call.members))
           /\ \A i \in 1..Len(call.res.val) :
                 /\ call.res.val[i].key
                       = StripOWS(BeforeFirstEq(Retained(call.members)[i]))
                 /\ call.res.val[i].value
                       = StripOWS(AfterFirstEq(Retained(call.members)[i]))

\* C10: parseHeader does not fail and returns one entry per member that holds
\* a '=', in header order (each entry's key and value are cut from its own
\* member), repeated keys kept; a header of white space only yields no entry.
ParseKeepsMembersWithEquals ==
    call.op = "parse"
        => /\ call.res.err = "none"
           /\ Len(call.res.val) = Len(Retained(call.members))
           /\ \A i \in 1..Len(call.res.val) :
                 /\ call.res.val[i].key
                       = StripOWS(BeforeFirstEq(Retained(call.members)[i]))
                 /\ call.res.val[i].value
                       = StripOWS(BeforeFirstEq(
                             AfterFirstEq(Retained(call.members)[i])))
           /\ (\A i \in 1..Len(call.header) : call.header[i] \in {" ", "\t"})
                 => call.res.val = <<>>
           /\ state = call.res.val

\* C10: a header of two members with the same key gave two entries, in order
ParseKeepsMembersWithEqualsWitness ==
    /\ call.op = "parse"
    /\ Len(call.members) = 2
    /\ Len(state) = 2
    /\ state[1].key = state[2].key
    /\ state[1].value = <<"v">>
    /\ state[2].value = <<"a">>

\* the TraceStates parseHeader returns for the headers of the model
ParsedStates ==
    {getTraceStateFromHeader(Join(ms, ",")).val : ms \in MemberSeqs}

\* the entries of s as key=value, with a comma between two entries
RECURSIVE Rendered(_)
Rendered(s) ==
    IF s = <<>> THEN <<>>
    ELSE Head(s).key \o <<"=">> \o Head(s).value
            \o (IF Tail(s) = <<>> THEN <<>> ELSE <<",">> \o Rendered(Tail(s)))

\* C11: formatHeader of a parsed header is its entries as key=value joined by
\* commas, nothing added, and parsing that header again gives the same
\* entries: parseHeader(formatHeader(parseHeader(h))) = parseHeader(h).
FormatParseRoundTrip ==
    /\ (call.op = "format" /\ call.pre \in ParsedStates)
          => Returned(Rendered(call.pre))
    /\ (call.op = "reparse" /\ call.pre \in ParsedStates)
          => Returned(call.pre)

\* C11: the header " k =\tv ,k=a=b" was parsed, rendered as "k=v,k=a" and
\* parsed again
FormatParseRoundTripWitness ==
    /\ call.op = "reparse"
    /\ call.pre \in ParsedStates
    /\ call.header = <<"k", "=", "v", ",", "k", "=", "a">>
    /\ Len(call.res.val) = 2

\* C12: a TraceState built from the empty one by add, update and delete
\* calls with valid keys and values comes back entry for entry from
\* parseHeader(formatHeader(s)).
BuiltStateRoundTrips ==
    call.op = "reparse" => Returned(call.pre)

====
